---- MODULE Spec2Model ----
(***************************************************************************)
(* Model of jenkins_build_downloader.py: the polling loop of main(), the   *)
(* per-job task fetch_and_download(), the state file, the download tree    *)
(* and the CI server the program talks to.                                 *)
(*                                                                         *)
(* Strings that the program takes apart (relative paths, job names, file   *)
(* names, keywords) are sequences of one-character strings, so that        *)
(* lower(), the substring test, Path.name and the f-string that builds the *)
(* file name are computed rather than assumed.                             *)
(***************************************************************************)
EXTENDS Integers, Sequences, FiniteSets, TLC

\* ------------------------------------------------------------------------
\* Bounds of the model
\* ------------------------------------------------------------------------
\* highest build number the CI server reaches (0 = no successful build yet)
MaxBuild == 1
\* highest value of the wall clock, in minutes
MaxClock == 1
\* number of times the program is started again after it ended
MaxRestarts == 1

\* ------------------------------------------------------------------------
\* Program constants
\* ------------------------------------------------------------------------
max_workers == 8

\* Python's None, as a value no build number takes
None == -1

KW_MAP ==
  [p \in {"Client_Android", "Client_IOS", "Client_Windows"} |->
     CASE p = "Client_Android" ->
            <<"b","i","n","a","r","y",".","a","n","d","r","o","i","d","a","a","b",".">>
       [] p = "Client_IOS" -> <<"s","o","l",".","i","o","s",".">>
       [] p = "Client_Windows" -> <<"b","i","n","a","r","y",".","w","i","n",".">>]

\* config.json: the platforms polled and the folder of each
platforms == <<"Client_Android", "Client_Windows">>

platform_dirs ==
  [p \in {"Client_Android", "Client_Windows"} |->
     IF p = "Client_Android" THEN <<"a","n","d">> ELSE <<"w","i","n">>]

\* ------------------------------------------------------------------------
\* The CI server: jobs of each platform and artifacts of each build
\* ------------------------------------------------------------------------
JobDev == <<"d","e","v">>
JobQA  == <<"Q","A">>

\* answer of /job/<platform>/api/json?depth=1
SubJobs(p) == IF p = "Client_Android" THEN <<JobDev>> ELSE <<JobQA>>

\* key = f"{platform}/{job}"; platform and job names hold no "/", so the
\* pair determines the string and the string the pair
Key(p, j) == <<p, j>>

Keys == {Key(platforms[i], SubJobs(platforms[i])[n]) :
           i \in 1..Len(platforms), n \in 1..1}

RelAabY == <<"b","i","n","a","r","y",".","a","n","d","r","o","i","d","a","a","b",".","y">>
RelNotes == <<"n","o","t","e","s",".","t","x","t">>
RelWinA == <<"b","i","n","a","r","y",".","w","i","n",".","a","/","x">>
RelWinB == <<"B","i","n","a","r","y",".","W","i","n",".","b","/","x">>
RelLog  == <<"d","e","b","u","g",".","l","o","g">>

\* "artifacts" of the build b of a job: the relativePath of each, in order
Artifacts(k, b) ==
  IF k[1] = "Client_Android"
    THEN IF b % 2 = 1 THEN <<RelAabY, RelNotes>> ELSE <<RelNotes>>
    ELSE <<RelWinA, RelWinB, RelLog>>

\* ------------------------------------------------------------------------
\* Pure functions of the program
\* ------------------------------------------------------------------------
UpperCase == <<"A","B","C","D","E","F","G","H","I","J","K","L","M",
               "N","O","P","Q","R","S","T","U","V","W","X","Y","Z">>
LowerCase == <<"a","b","c","d","e","f","g","h","i","j","k","l","m",
               "n","o","p","q","r","s","t","u","v","w","x","y","z">>

LowerChar(c) ==
  IF \E i \in 1..26 : UpperCase[i] = c
    THEN LowerCase[CHOOSE i \in 1..26 : UpperCase[i] = c]
    ELSE c

\* str.lower()
Lower(s) == [i \in 1..Len(s) |-> LowerChar(s[i])]

\* kw in s
Contains(kw, s) ==
  \E i \in 0..(Len(s) - Len(kw)) : SubSeq(s, i + 1, i + Len(kw)) = kw

\* KW_MAP.get(platform, "")
KwOf(p) == IF p \in DOMAIN KW_MAP THEN KW_MAP[p] ELSE <<>>

\* kw in a.get("relativePath", "").lower()
Matches(p, rel) == Contains(KwOf(p), Lower(rel))

\* targets = [a for a in artifacts if ...]: the positions kept, in order
RECURSIVE FilterFrom(_, _, _)
FilterFrom(p, arts, i) ==
  IF i > Len(arts) THEN <<>>
  ELSE IF Matches(p, arts[i])
         THEN <<i>> \o FilterFrom(p, arts, i + 1)
         ELSE FilterFrom(p, arts, i + 1)

\* the targets of every build of every job, computed once
TargetsOf ==
  [k \in Keys |-> [b \in 0..MaxBuild |-> FilterFrom(k[1], Artifacts(k, b), 1)]]

Targets(k, b) == TargetsOf[k][b]

\* Path(rel).name: what follows the last "/"
PathName(rel) ==
  LET slashes == {i \in 1..Len(rel) : rel[i] = "/"}
      last == IF slashes = {} THEN 0
              ELSE CHOOSE i \in slashes : \A m \in slashes : m <= i
  IN  SubSeq(rel, last + 1, Len(rel))

Digit(n) == CASE n = 0 -> "0" [] n = 1 -> "1" [] n = 2 -> "2" [] n = 3 -> "3"
              [] n = 4 -> "4" [] n = 5 -> "5" [] n = 6 -> "6" [] n = 7 -> "7"
              [] n = 8 -> "8" [] n = 9 -> "9"

\* timestamp(): strftime("%Y.%m.%d.%H.%M") of a clock that counts the
\* minutes from 2025-01-01 00:00 (for clock readings below one hour)
timestamp(t) ==
  <<"2","0","2","5",".","0","1",".","0","1",".","0","0",".">>
    \o <<Digit((t \div 10) % 10), Digit(t % 10)>>

\* fname = f"{timestamp()}_{job}_{Path(rel).name}"
FName(t, job, rel) == timestamp(t) \o <<"_">> \o job \o <<"_">> \o PathName(rel)

\* save_path = base_dir / platform_dirs[platform] / job.lower()
SavePathOf == [k \in Keys |-> <<platform_dirs[k[1]], Lower(k[2])>>]

SavePath(k) == SavePathOf[k]

Rels == {RelAabY, RelNotes, RelWinA, RelWinB, RelLog}

\* dest = save_path / fname, for every job, clock reading and relative path
DestOf ==
  [k \in Keys |-> [t \in 0..MaxClock |-> [rel \in Rels |->
     [dir |-> SavePath(k), name |-> FName(t, k[2], rel)]]]]

Dest(k, t, rel) == DestOf[k][t][rel]

PartSuffix == <<".","p","a","r","t">>

TempDest_InPlace(dest) == dest

\* temp_dest = save_path / (fname + ".part")
TempDest(dest) == [dir |-> dest.dir, name |-> dest.name \o PartSuffix]

IsPart(path) ==
  /\ Len(path.name) >= Len(PartSuffix)
  /\ SubSeq(path.name, Len(path.name) - Len(PartSuffix) + 1, Len(path.name))
       = PartSuffix


\* ------------------------------------------------------------------------
\* state.json
\* ------------------------------------------------------------------------
EmptyState == <<>>

\* state.get(key)
StateGet(s, k) == IF k \in DOMAIN s THEN s[k] ELSE None

\* state[key] = build_no
StateSet(s, k, b) == [x \in (DOMAIN s) \cup {k} |-> IF x = k THEN b ELSE s[x]]

\* The file is absent, holds the text of a mapping ("json"), or holds
\* something json.load rejects ("bad": empty after the truncation of
\* open("w"), or a text followed by the tail of a longer one).  size is the
\* length of the content, counted in entries: every entry is one line of
\* the pretty-printed object, and the mappings written are prefixes of each
\* other in key order.
NoFile == [kind |-> "absent", map |-> EmptyState, size |-> 0]

\* STATE_PATH.open("w"): creates or truncates
Truncated == [kind |-> "bad", map |-> EmptyState, size |-> 0]

\* json.dump(state, f, indent=2): the text held in the buffer of the handle
DumpText(s) == [kind |-> "json", map |-> s, size |-> Cardinality(DOMAIN s)]

\* leaving the with block: the buffer is written at offset 0 of the handle,
\* over whatever the file holds by then
Overlay(text, file) ==
  IF text.size >= file.size THEN text
  ELSE [kind |-> "bad", map |-> EmptyState, size |-> file.size]

\* STATE_PATH.exists() / json.load(f)
Loadable(file) == file.kind # "bad"
Load(file) == IF file.kind = "json" THEN file.map ELSE EmptyState

\* ------------------------------------------------------------------------
\* Variables
\* ------------------------------------------------------------------------
VARIABLES
  now,        \* wall clock, minutes
  lastBuild,  \* CI: number of the last successful build of each job
  broken,     \* CI: artifacts whose download request fails
  netDown,    \* CI: the server cannot be reached
  fs,         \* files under base_dir: path -> content
  dirs,       \* directories created under base_dir
  stateFile,  \* content of state.json
  proc,       \* "up" while the process lives, "down" otherwise
  main,       \* position of main()
  state,      \* the dict state of the process
  task,       \* the future of each job: position and result
  doneQ,      \* futures finished and not yet yielded by as_completed
  runs,       \* number of restarts so far
  recovered,  \* CI: the server fails no request any more
  shape,      \* CI: what the metadata of each job's last build carries
  filt,       \* one evaluation of the artifact filter on given arguments
  prev        \* history: end of the job's previous task under unchanged CI

vars == <<now, lastBuild, broken, netDown, fs, dirs, stateFile, proc, main,
          state, task, doneQ, runs, recovered, shape, filt, prev>>

\* what no step of the program writes
env  == <<lastBuild, broken, netDown, recovered, shape, filt>>
disk == <<fs, dirs, stateFile>>

KeyDev == Key("Client_Android", JobDev)
KeyQA  == Key("Client_Windows", JobQA)

\* artifacts whose download the server may refuse
Breakable == {<<KeyQA, RelWinB>>}

\* build: the build the metadata describes; number: build_no of line 108
IdleTask == [pc |-> "none", build |-> 0, number |-> None, idx |-> 0, ts |-> 0,
             buf |-> EmptyState, out |-> "none"]
QueuedTask == [IdleTask EXCEPT !.pc = "queued"]
EndedTask(out, b) == [IdleTask EXCEPT !.pc = "done", !.out = out, !.build = b]

NoPrev == [out |-> "none", same |-> TRUE]

\* the filter is not being evaluated
NoCall == [platform |-> "", artifacts |-> <<>>, targets |-> <<>>, pc |-> "none"]

MainAt(pc, idx, left) == [pc |-> pc, idx |-> idx, left |-> left, exc |-> "none"]

Init ==
  /\ now = 0
  /\ lastBuild = [k \in Keys |-> 0]
  /\ broken = {}
  /\ netDown = FALSE
  /\ fs = <<>>
  /\ dirs = {}
  /\ stateFile = NoFile
  /\ proc = "up"
  /\ main = MainAt("enum", 1, 0)
  /\ state = Load(NoFile)
  /\ task = [k \in Keys |-> IdleTask]
  /\ doneQ = <<>>
  /\ runs = 0
  /\ recovered = FALSE
  /\ shape = [k \in Keys |-> "full"]
  /\ filt = NoCall
  /\ prev = [k \in Keys |-> NoPrev]

\* ------------------------------------------------------------------------
\* The CI server and the clock
\* ------------------------------------------------------------------------
Forget == prev' = [k \in Keys |-> NoPrev]

\* The program sees the server only through its requests and the clock
\* only through timestamp(): both move when the program is about to look.
Observed ==
  /\ proc = "up"
  /\ \/ main.pc = "enum"
     \/ \E k \in Keys : task[k].pc \in {"queued", "download", "stream"}

Timed == proc = "up" /\ \E k \in Keys : task[k].pc = "download"

NewBuild(k) ==
  /\ Observed
  /\ lastBuild[k] < MaxBuild
  /\ lastBuild' = [lastBuild EXCEPT ![k] = @ + 1]
  /\ Forget
  /\ UNCHANGED <<now, shape, filt, broken, netDown, recovered, disk, proc, runs, main, state, task, doneQ>>

Break(a) ==
  /\ Observed
  /\ a \notin broken
  /\ ~recovered
  /\ broken' = broken \cup {a}
  /\ Forget
  /\ UNCHANGED <<now, shape, filt, lastBuild, netDown, recovered, disk, proc, runs, main, state, task, doneQ>>

Repair(a) ==
  /\ Observed
  /\ a \in broken
  /\ broken' = broken \ {a}
  /\ Forget
  /\ UNCHANGED <<now, shape, filt, lastBuild, netDown, recovered, disk, proc, runs, main, state, task, doneQ>>

NetFlip ==
  /\ Observed
  /\ ~recovered
  /\ netDown' = ~netDown
  /\ Forget
  /\ UNCHANGED <<now, shape, filt, lastBuild, broken, recovered, disk, proc, runs, main, state, task, doneQ>>

\* the outage is over for good
Recover ==
  /\ Observed
  /\ ~recovered
  /\ recovered' = TRUE
  /\ broken' = {}
  /\ netDown' = FALSE
  /\ Forget
  /\ UNCHANGED <<now, shape, filt, lastBuild, disk, proc, runs, main, state, task, doneQ>>

Tick ==
  /\ Timed
  /\ now < MaxClock
  /\ now' = now + 1
  /\ UNCHANGED <<env, disk, proc, runs, main, state, task, doneQ, prev>>

\* ------------------------------------------------------------------------
\* fetch_and_download(platform, job)
\* ------------------------------------------------------------------------
\* requests.get + raise_for_status + r.json() of a metadata query
jenkins_api(down, exists) ==
  IF down THEN "ConnectionError"
  ELSE IF ~exists THEN "HTTPError"
  ELSE "ok"

CaughtAtResolve_Never(exc) == FALSE

\* except requests.HTTPError
CaughtAtResolve(exc) == exc = "HTTPError"

UpToDate_Never(s, k, b) == FALSE

\* state.get(key) == build_no
UpToDate(s, k, b) == StateGet(s, k) = b

Executing(k) == task[k].pc \notin {"none", "queued", "done"}

WorkerFree_Always == TRUE

\* ThreadPoolExecutor(max_workers=8): a queued task starts when fewer than
\* max_workers tasks are running
WorkerFree == Cardinality({x \in DOMAIN task : Executing(x)}) < max_workers

\* info.get("number")
Number(k, b) == IF shape[k] = "nonumber" THEN None ELSE b

\* info.get("artifacts", []): the artifacts of the build, none at all, or
\* a log and nothing else
Listed(k, b) ==
  CASE shape[k] = "bare" -> <<>>
    [] shape[k] = "logs" -> <<RelLog>>
    [] OTHER -> Artifacts(k, b)

ListedTargets_Unfiltered(k, b) == [i \in 1..Len(Listed(k, b)) |-> i]

\* targets of the artifacts listed
ListedTargets(k, b) ==
  IF shape[k] \in {"bare", "logs"}
    THEN FilterFrom(k[1], Listed(k, b), 1)
    ELSE Targets(k, b)

\* the task returns or raises: its future is done
TaskEnd(k, out, b) ==
  /\ task' = [task EXCEPT ![k] = EndedTask(out, b)]
  /\ doneQ' = Append(doneQ, k)
  /\ prev' = [prev EXCEPT ![k] =
                IF @.out = "none" THEN @ ELSE [out |-> out, same |-> TRUE]]

\* an exception leaves fetch_and_download: lines 147-149 are not reached
Fail_Finally(k, b) ==
  /\ TaskEnd(k, "Error", b)
  /\ state' = StateSet(state, k, b)
  /\ stateFile' = DumpText(state')

Fail(k, b) ==
  /\ TaskEnd(k, "Error", b)
  /\ UNCHANGED <<state, stateFile>>

Advance_Early(k) ==
  /\ task' = [task EXCEPT ![k] = [@ EXCEPT !.pc = "record", !.idx = 0]]
  /\ UNCHANGED <<doneQ, prev>>

\* the for loop goes to the next target, or ends
Advance(k) ==
  LET t == task[k]
  IN  /\ task' = [task EXCEPT ![k] =
                    IF t.idx < Len(Targets(k, t.build))
                      THEN [t EXCEPT !.pc = "download", !.idx = t.idx + 1]
                      ELSE [t EXCEPT !.pc = "record", !.idx = 0]]
      /\ UNCHANGED <<doneQ, prev>>

\* lines 101-125: a worker takes the task; build resolution, freshness
\* test, filter, mkdir
Resolve(k) ==
  /\ proc = "up"
  /\ task[k].pc = "queued"
  /\ WorkerFree
  /\ LET r == jenkins_api(netDown, lastBuild[k] > 0)
         b == lastBuild[k]
         build_no == Number(k, b)
     IN  IF r # "ok"
           THEN /\ IF CaughtAtResolve(r)
                     THEN TaskEnd(k, "NotFound", 0) /\ UNCHANGED <<state, stateFile>>
                     ELSE Fail(k, 0)
                /\ UNCHANGED dirs
           ELSE IF UpToDate(state, k, build_no)
             THEN TaskEnd(k, "UpToDate", b) /\ UNCHANGED <<dirs, state, stateFile>>
           ELSE IF ListedTargets(k, b) = <<>>
             THEN TaskEnd(k, "NoTargets", b) /\ UNCHANGED <<dirs, state, stateFile>>
           ELSE /\ task' = [task EXCEPT ![k] =
                              [IdleTask EXCEPT !.pc = "download", !.build = b,
                                               !.number = build_no,
                                               !.idx = 1]]
                /\ dirs' = dirs \cup {SavePath(k)}
                /\ UNCHANGED <<doneQ, prev, state, stateFile>>
  /\ UNCHANGED <<now, env, fs, proc, runs, main>>

CurrentRel(k) ==
  Artifacts(k, task[k].build)[Targets(k, task[k].build)[task[k].idx]]

Body(k, b, art, complete) ==
  [key |-> k, build |-> b, art |-> art, complete |-> complete]

\* lines 128-141: name of the target, existence test, request, open(".part")
BeginDownload(k) ==
  /\ proc = "up"
  /\ task[k].pc = "download"
  /\ LET t == task[k]
         dest == Dest(k, now, CurrentRel(k))
     IN  IF dest \in DOMAIN fs
           THEN Advance(k) /\ UNCHANGED <<fs, state, stateFile>>
         ELSE IF netDown \/ <<k, CurrentRel(k)>> \in broken
           THEN Fail(k, t.build) /\ UNCHANGED fs
         ELSE /\ fs' = [p \in (DOMAIN fs) \cup {TempDest(dest)} |->
                          IF p = TempDest(dest)
                            THEN Body(k, t.build, Targets(k, t.build)[t.idx], FALSE)
                            ELSE fs[p]]
              /\ task' = [task EXCEPT ![k] = [t EXCEPT !.pc = "stream", !.ts = now]]
              /\ UNCHANGED <<doneQ, prev, state, stateFile>>
  /\ UNCHANGED <<now, env, dirs, proc, runs, main>>

\* lines 142-143: the chunks are written; the transfer may break on the way
Stream(k) ==
  /\ proc = "up"
  /\ task[k].pc = "stream"
  /\ LET t == task[k]
         temp == TempDest(Dest(k, t.ts, CurrentRel(k)))
     IN  IF netDown \/ <<k, CurrentRel(k)>> \in broken
           THEN Fail(k, t.build) /\ UNCHANGED fs
           ELSE /\ fs' = [fs EXCEPT ![temp] = [@ EXCEPT !.complete = TRUE]]
                /\ task' = [task EXCEPT ![k] = [t EXCEPT !.pc = "rename"]]
                /\ UNCHANGED <<doneQ, prev, state, stateFile>>
  /\ UNCHANGED <<now, env, dirs, proc, runs, main>>

\* line 144: temp_dest.replace(dest)
Rename(k) ==
  /\ proc = "up"
  /\ task[k].pc = "rename"
  /\ LET t == task[k]
         dest == Dest(k, t.ts, CurrentRel(k))
         temp == TempDest(dest)
     IN  fs' = [p \in ((DOMAIN fs) \ {temp}) \cup {dest} |->
                  IF p = dest THEN fs[temp] ELSE fs[p]]
  /\ Advance(k)
  /\ UNCHANGED <<now, env, dirs, stateFile, proc, runs, main, state>>

\* lines 147-148: state[key] = build_no; STATE_PATH.open("w")
Record(k) ==
  /\ proc = "up"
  /\ task[k].pc = "record"
  /\ state' = StateSet(state, k, task[k].number)
  /\ stateFile' = Truncated
  /\ task' = [task EXCEPT ![k] = [@ EXCEPT !.pc = "dump"]]
  /\ UNCHANGED <<now, env, fs, dirs, proc, runs, main, doneQ, prev>>

\* line 149: json.dump(state, f, ...) fills the buffer of the handle
DumpState(k) ==
  /\ proc = "up"
  /\ task[k].pc = "dump"
  /\ task' = [task EXCEPT ![k] = [@ EXCEPT !.pc = "close", !.buf = state]]
  /\ UNCHANGED <<now, env, disk, proc, runs, main, state, doneQ, prev>>

\* end of the with block of line 148: flush and close
CloseState(k) ==
  /\ proc = "up"
  /\ task[k].pc = "close"
  /\ stateFile' = Overlay(DumpText(task[k].buf), stateFile)
  /\ TaskEnd(k, "Recorded", task[k].build)
  /\ UNCHANGED <<now, env, fs, dirs, proc, runs, main, state>>


\* ------------------------------------------------------------------------
\* main()
\* ------------------------------------------------------------------------
JobsOf(p) == {Key(p, SubJobs(p)[n]) : n \in 1..Len(SubJobs(p))}

\* line 155, one platform of the comprehension: list_subjobs(p), then one
\* executor.submit per job.  A failed job-list request raises in main().
Enumerate ==
  /\ proc = "up"
  /\ main.pc = "enum"
  /\ LET p == platforms[main.idx]
         r == jenkins_api(netDown, TRUE)
     IN  IF r # "ok"
           THEN /\ main' = [main EXCEPT !.pc = "raised", !.exc = "list_subjobs"]
                /\ Forget
                /\ UNCHANGED task
           ELSE /\ task' = [k \in Keys |->
                              IF k \in JobsOf(p) THEN QueuedTask ELSE task[k]]
                /\ prev' = [k \in Keys |->
                              IF k \in JobsOf(p) /\ prev[k].out = "none"
                                THEN [out |-> "run", same |-> TRUE]
                                ELSE prev[k]]
                /\ main' = IF main.idx < Len(platforms)
                             THEN MainAt("enum", main.idx + 1,
                                         main.left + Cardinality(JobsOf(p)))
                             ELSE MainAt("collect", 0,
                                         main.left + Cardinality(JobsOf(p)))
  /\ UNCHANGED <<now, env, disk, proc, runs, state, doneQ>>

Collect_First ==
  /\ proc = "up"
  /\ main.pc = "collect"
  /\ doneQ # <<>>
  /\ doneQ' = Tail(doneQ)
  /\ main' = IF task[Head(doneQ)].out = "Error"
               THEN [main EXCEPT !.pc = "raised", !.exc = "task"]
               ELSE MainAt("sleep", 0, 0)
  /\ UNCHANGED <<now, env, disk, proc, runs, state, task, prev>>

\* lines 156-157: as_completed yields the next finished future, and
\* future.result() returns, or raises what the task raised
Collect ==
  /\ proc = "up"
  /\ main.pc = "collect"
  /\ doneQ # <<>>
  /\ doneQ' = Tail(doneQ)
  /\ main' = IF task[Head(doneQ)].out = "Error"
               THEN [main EXCEPT !.pc = "raised", !.exc = "task"]
             ELSE IF main.left > 1
               THEN [main EXCEPT !.left = main.left - 1]
               ELSE MainAt("sleep", 0, 0)
  /\ UNCHANGED <<now, env, disk, proc, runs, state, task, prev>>

Wake_AfterStop ==
  /\ proc = "up"
  /\ main.pc \in {"sleep", "stopped"}
  /\ main' = MainAt("enum", 1, 0)
  /\ UNCHANGED <<now, env, disk, proc, runs, state, task, doneQ, prev>>

\* line 158: time.sleep(5) returns
Wake ==
  /\ proc = "up"
  /\ main.pc = "sleep"
  /\ main' = MainAt("enum", 1, 0)
  /\ UNCHANGED <<now, env, disk, proc, runs, state, task, doneQ, prev>>

\* lines 159-160: KeyboardInterrupt in the loop
Interrupt ==
  /\ proc = "up"
  /\ main.pc \in {"enum", "collect", "sleep"}
  /\ main' = [main EXCEPT !.pc = "stopped"]
  /\ Forget
  /\ UNCHANGED <<now, env, disk, proc, runs, state, task, doneQ>>

\* lines 161-162 and interpreter exit: main() is over, shutdown(wait=False)
\* lets the workers drain the queue, and the process ends with the last one
Exit ==
  /\ proc = "up"
  /\ main.pc \in {"stopped", "raised"}
  /\ \A k \in Keys : task[k].pc \in {"none", "done"}
  /\ proc' = "down"
  /\ state' = EmptyState
  /\ doneQ' = <<>>
  /\ prev' = [k \in Keys |-> [prev[k] EXCEPT !.same = (prev[k].out = "none")]]
  /\ UNCHANGED <<now, env, disk, main, task, runs>>

\* the process is killed: nothing of it runs any more, buffers are lost
Kill ==
  /\ proc = "up"
  /\ proc' = "down"
  /\ main' = [main EXCEPT !.pc = "killed"]
  /\ state' = EmptyState
  /\ task' = [k \in Keys |-> IF task[k].pc = "done" THEN task[k] ELSE IdleTask]
  /\ doneQ' = <<>>
  /\ Forget
  /\ UNCHANGED <<now, env, disk, runs>>

\* lines 64-68 and 151-155: the program is started again
Restart ==
  /\ proc = "down"
  /\ main.pc # "loadfail"
  /\ runs < MaxRestarts
  /\ runs' = runs + 1
  /\ IF Loadable(stateFile)
       THEN /\ proc' = "up"
            /\ state' = Load(stateFile)
            /\ main' = MainAt("enum", 1, 0)
       ELSE /\ main' = MainAt("loadfail", 0, 0)
            /\ UNCHANGED <<proc, state>>
  /\ task' = [k \in Keys |-> IdleTask]
  /\ UNCHANGED <<now, env, disk, doneQ, prev>>

\* ------------------------------------------------------------------------
\* Specification
\* ------------------------------------------------------------------------
TaskStep(k) ==
  \/ Resolve(k)
  \/ BeginDownload(k)
  \/ Stream(k)
  \/ Rename(k)
  \/ Record(k)
  \/ DumpState(k)
  \/ CloseState(k)

MainStep ==
  \/ Enumerate
  \/ Collect
  \/ Wake
  \/ Exit

Environment ==
  \/ \E k \in Keys : NewBuild(k)
  \/ \E a \in Breakable : Break(a)
  \/ \E a \in Breakable : Repair(a)
  \/ NetFlip
  \/ Tick

\* one execution of the program, until it ends or is killed
Next ==
  \/ \E k \in Keys : TaskStep(k)
  \/ MainStep
  \/ Interrupt
  \/ Kill
  \/ Environment

Spec == Init /\ [][Next]_vars

\* executions that end by themselves and are started again
RestartNext ==
  \/ \E k \in Keys : TaskStep(k)
  \/ MainStep
  \/ Restart
  \/ Environment

RestartSpec == Init /\ [][RestartNext]_vars

\* one execution under the scheduling the program relies on: a worker that
\* can go on does, and so does main() (the sleep of line 158 returns)
LiveNext ==
  \/ \E k \in Keys : TaskStep(k)
  \/ MainStep
  \/ Interrupt
  \/ \E k \in Keys : NewBuild(k)
  \/ \E a \in Breakable : Break(a)
  \/ \E a \in Breakable : Repair(a)
  \/ NetFlip
  \/ Recover

LiveSpec ==
  /\ Init
  /\ [][LiveNext]_vars
  /\ WF_vars(\E k \in Keys : TaskStep(k))
  /\ WF_vars(MainStep)


\* ------------------------------------------------------------------------
\* Properties
\* ------------------------------------------------------------------------
FinalFiles(f) == {p \in DOMAIN f : ~IsPart(p)}

\* the complete body of every target of build b of job k is on disk under
\* a destination name of that target
Synced(k, b) ==
  \A i \in 1..Len(Targets(k, b)) :
    \E t \in 0..MaxClock :
      LET dest == Dest(k, t, Artifacts(k, b)[Targets(k, b)[i]])
      IN  /\ dest \in DOMAIN fs
          /\ fs[dest] = Body(k, b, Targets(k, b)[i], TRUE)

\* C1: whenever SyncState maps a job to build b, in memory or in the state
\* file, every artifact of build b that matches the platform's keyword is
\* completely on disk under its destination name, with the content of
\* build b.
C1_RecordedImpliesSynced ==
  /\ proc = "up" => \A k \in DOMAIN state : Synced(k, state[k])
  /\ stateFile.kind = "json" =>
       \A k \in DOMAIN stateFile.map : Synced(k, stateFile.map[k])

\* C2: no failure inside a job's task reaches main(): the Scheduler is never
\* ended by an exception that a task raised.
C2_TaskFailureContained == ~(main.pc = "raised" /\ main.exc = "task")

\* C3: a file under a final (non-.part) name always holds a complete body,
\* also after a kill or a failed transfer; incomplete bodies are under
\* ".part" names only.
C3_AtomicPlacement == \A p \in FinalFiles(fs) : fs[p].complete

C3_Witness ==
  /\ main.pc = "killed"
  /\ FinalFiles(fs) # {}
  /\ \E p \in DOMAIN fs : IsPart(p) /\ ~fs[p].complete

\* C4: once no task is between its update of the mapping and the end of its
\* write, the state file is a well-formed mapping equal to the one in memory.
C4_SerializedRecord ==
  (proc = "up" /\ \A k \in Keys : task[k].pc \notin {"dump", "close"})
    => (Loadable(stateFile) /\ Load(stateFile) = state)

\* C5: after a kill at any point the state file can be loaded, and it holds
\* the entry of every job whose write had been completed.
C5_CrashResumable ==
  main.pc = "killed" =>
    /\ Loadable(stateFile)
    /\ \A k \in Keys : task[k].out = "Recorded" =>
         StateGet(Load(stateFile), k) = task[k].build


\* the task of job k takes its first step (lines 101-125)
TakesResolve(k) ==
  /\ proc = "up" /\ proc' = "up"
  /\ task[k].pc = "queued"
  /\ task'[k] # task[k]

\* a step of the running task of job k
TaskMoves(k) ==
  /\ proc = "up" /\ proc' = "up"
  /\ task[k].pc \notin {"none", "done"}
  /\ task'[k] # task[k]

\* as_completed yields the future of job k
Collects(k) ==
  /\ proc = "up" /\ proc' = "up"
  /\ main.pc = "collect"
  /\ doneQ # <<>>
  /\ Head(doneQ) = k
  /\ doneQ' = Tail(doneQ)

\* the previous task of job k has ended, and the server has answered the
\* same way ever since that task was submitted
SecondRun(k) == prev[k].out \notin {"none", "run"}

\* C6: whatever the end of the job's task in the first sweep, the
\* job's task in the next sweep against the unchanged server writes no file
\* and leaves SyncState and the state file alone.
C6_SecondSweepIdle ==
  [][\A k \in Keys :
       (SecondRun(k) /\ TaskMoves(k))
         => (fs' = fs /\ state' = state /\ stateFile' = stateFile)]_vars

\* Lemma: the same holds of two consecutive sweeps of one run of the
\* Scheduler, which follow each other only when no task raised.
SecondSweepIdleSameRun ==
  [][\A k \in Keys :
       (SecondRun(k) /\ prev[k].same /\ TaskMoves(k))
         => (fs' = fs /\ state' = state /\ stateFile' = stateFile)]_vars

SecondSweepWitness ==
  /\ prev[KeyDev].out = "Recorded" /\ prev[KeyDev].same
  /\ task[KeyDev].pc = "queued"
  /\ prev[KeyQA].out = "UpToDate" /\ prev[KeyQA].same
  /\ task[KeyQA].out = "UpToDate"

\* C7: when the last successful build is the one SyncState holds, the task
\* ends with its metadata request: no directory, no file, no change of
\* SyncState or of the state file.
C7_UpToDateSkip ==
  [][\A k \in Keys :
       (/\ TakesResolve(k)
        /\ ~netDown
        /\ lastBuild[k] > 0
        /\ StateGet(state, k) = lastBuild[k])
         => (/\ task'[k].pc = "done"
             /\ task'[k].out = "UpToDate"
             /\ UNCHANGED <<fs, dirs, state, stateFile>>)]_vars

C7_Witness ==
  \E k \in Keys :
    /\ task[k].out = "UpToDate"
    /\ StateGet(state, k) = task[k].build
    /\ \E p \in FinalFiles(fs) : fs[p].key = k

\* C8: a 404 at build resolution ends the job's task normally, with no
\* file, no directory and no change of SyncState or of the state file, and
\* main() goes on with the sweep when it collects that future.
C8_NotFoundSkipsJob ==
  [][\A k \in Keys :
       /\ (TakesResolve(k) /\ ~netDown /\ lastBuild[k] = 0)
            => (/\ task'[k].pc = "done"
                /\ task'[k].out = "NotFound"
                /\ UNCHANGED <<fs, dirs, state, stateFile, main>>)
       /\ (Collects(k) /\ task[k].out = "NotFound")
            => main'.pc \in {"collect", "sleep"}]_vars

C8_Witness ==
  /\ main.pc = "sleep"
  /\ task[KeyDev].out = "NotFound"
  /\ task[KeyQA].out = "Recorded"

\* C9: a task that fails while downloading never records its build: the
\* build number is under the job's key neither in memory nor in the state
\* file, and no step of the download loop touches SyncState or the file,
\* also when earlier artifacts of the job were downloaded.
C9_FailedDownloadNotRecorded ==
  /\ [](\A k \in Keys :
          (task[k].out = "Error" /\ task[k].build > 0)
            => (/\ proc = "up" => StateGet(state, k) # task[k].build
                /\ StateGet(Load(stateFile), k) # task[k].build))
  /\ [][\A k \in Keys :
          (TaskMoves(k) /\ task[k].pc \in {"download", "stream", "rename"})
            => UNCHANGED <<state, stateFile>>]_vars

C9_Witness ==
  \E k \in Keys :
    /\ task[k].out = "Error"
    /\ task[k].build > 0
    /\ \E p \in FinalFiles(fs) : fs[p].key = k /\ fs[p].build = task[k].build


\* the server answers every request of job k, and the job has something to
\* download
Healthy(k) ==
  /\ ~netDown
  /\ broken = {}
  /\ lastBuild[k] > 0
  /\ Targets(k, lastBuild[k]) # <<>>

\* C10: if the task of a job failed and from some point on the server
\* answers the job's requests, then, unless the Scheduler is interrupted, a
\* later sweep records the job's last successful build.
C10_RetriedUntilRecorded ==
  \A k \in Keys :
    (recovered /\ Healthy(k) /\ task[k].out \in {"Error", "NotFound"})
      ~> (\/ StateGet(state, k) = lastBuild[k]
          \/ Targets(k, lastBuild[k]) = <<>>
          \/ main.pc = "stopped")

\* the tasks main() has submitted in the sweep it is dispatching: those of
\* the platforms before main.idx
Dispatched ==
  IF main.pc = "enum"
    THEN UNION {JobsOf(platforms[i]) : i \in 1..(main.idx - 1)}
    ELSE {}

\* C11: while main() sleeps between two sweeps, and while it dispatches a
\* sweep, no task of the sweep before is queued or running: every task that
\* is not done belongs to the sweep being dispatched.
C11_SweepBarrier ==
  proc = "up" =>
    /\ main.pc = "sleep" => \A k \in Keys : task[k].pc \in {"none", "done"}
    /\ main.pc = "enum" =>
         \A k \in Keys \ Dispatched : task[k].pc \in {"none", "done"}

\* main() sleeps after a sweep in which both tasks ran to their end, one of
\* them through its downloads
C11_Witness ==
  /\ proc = "up"
  /\ main.pc = "sleep"
  /\ \A k \in Keys : task[k].pc = "done"
  /\ \E k \in Keys : task[k].out = "Recorded"

\* C12: once a task of the first sweep is submitted, main() leaves its loop only by
\* an interrupt (or the process is killed): no answer of the server, the
\* failure of a job-list request of line 155 included, ends it by an
\* exception.
C12_StopsOnlyOnInterrupt ==
  (\E k \in Keys : task[k].pc # "none") =>
    /\ main.pc # "raised"
    /\ proc = "down" => main.pc \in {"stopped", "killed"}

\* C13: once main() has caught the interrupt it stays stopped: no sweep is
\* started, no sleep entered and no task submitted any more; the tasks in
\* flight and those queued may still run.
C13_StoppedIsTerminal ==
  [][main.pc = "stopped" =>
       /\ main'.pc \in {"stopped", "killed"}
       /\ \A k \in Keys : task'[k].pc = "queued" => task[k].pc = "queued"]_vars

\* the interrupt came while one task was queued and the other running, and
\* the running one has gone on to its end since
C13_Witness ==
  /\ main.pc = "stopped"
  /\ \E k \in Keys : task[k].pc = "queued"
  /\ \E k \in Keys : task[k].out = "Recorded"

\* ------------------------------------------------------------------------
\* The pool under more jobs than workers
\* ------------------------------------------------------------------------
\* jobs the server lists beyond the number of workers
ExtraJobs == 1

PoolJobCount == max_workers + ExtraJobs

\* the jobs in the order of line 155: the first half under the first
\* platform, the others under the second
PoolKeys ==
  [i \in 1..PoolJobCount |->
     Key(IF 2 * i <= PoolJobCount THEN platforms[1] ELSE platforms[2],
         <<"j", Digit(i % 10)>>)]

PoolKeySet == {PoolKeys[i] : i \in 1..PoolJobCount}

PoolInit ==
  /\ now = 0
  /\ lastBuild = [k \in Keys |-> 0]
  /\ broken = {}
  /\ netDown = FALSE
  /\ fs = <<>>
  /\ dirs = {}
  /\ stateFile = NoFile
  /\ proc = "up"
  /\ main = MainAt("enum", 1, 0)
  /\ state = Load(NoFile)
  /\ task = [k \in PoolKeySet |-> IdleTask]
  /\ doneQ = <<>>
  /\ runs = 0
  /\ recovered = FALSE
  /\ shape = [k \in Keys |-> "full"]
  /\ filt = NoCall
  /\ prev = [k \in Keys |-> NoPrev]

\* line 155: executor.submit of the next job
PoolSubmit ==
  /\ proc = "up"
  /\ main.pc = "enum"
  /\ task' = [task EXCEPT ![PoolKeys[main.idx]] = QueuedTask]
  /\ main' = IF main.idx < PoolJobCount
               THEN MainAt("enum", main.idx + 1, main.left + 1)
               ELSE MainAt("collect", 0, main.left + 1)
  /\ UNCHANGED <<now, env, disk, proc, runs, state, doneQ, prev>>

\* a free worker takes the oldest task of the queue
PoolStart(i) ==
  /\ proc = "up"
  /\ task[PoolKeys[i]].pc = "queued"
  /\ \A j \in 1..(i - 1) : task[PoolKeys[j]].pc # "queued"
  /\ WorkerFree
  /\ task' = [task EXCEPT ![PoolKeys[i]] = [@ EXCEPT !.pc = "running"]]
  /\ UNCHANGED <<now, env, disk, proc, runs, main, state, doneQ, prev>>

\* fetch_and_download returns; what it does in between is left out here
PoolReturn(i) ==
  /\ proc = "up"
  /\ task[PoolKeys[i]].pc = "running"
  /\ task' = [task EXCEPT ![PoolKeys[i]] = EndedTask("Returned", 0)]
  /\ UNCHANGED <<now, env, disk, proc, runs, main, state, doneQ, prev>>

\* lines 156-157: as_completed yields a finished future
PoolCollect(i) ==
  /\ proc = "up"
  /\ main.pc = "collect"
  /\ task[PoolKeys[i]].pc = "done"
  /\ task[PoolKeys[i]].out = "Returned"
  /\ task' = [task EXCEPT ![PoolKeys[i]] = [@ EXCEPT !.out = "Collected"]]
  /\ main' = IF main.left > 1
               THEN [main EXCEPT !.left = main.left - 1]
               ELSE MainAt("sleep", 0, 0)
  /\ UNCHANGED <<now, env, disk, proc, runs, state, doneQ, prev>>

PoolNext ==
  \/ PoolSubmit
  \/ \E i \in 1..PoolJobCount : PoolStart(i)
  \/ \E i \in 1..PoolJobCount : PoolReturn(i)
  \/ \E i \in 1..PoolJobCount : PoolCollect(i)
  \/ Wake

PoolSpec == PoolInit /\ [][PoolNext]_vars

Running == {k \in DOMAIN task : Executing(k)}

\* C14: at most max_workers tasks run at the same time, whatever the
\* number of jobs and platforms of the sweep, in every sweep of the one
\* pool; the other submitted tasks stay queued.
C14_BoundedConcurrency == Cardinality(Running) <= max_workers

\* all workers are busy with tasks of both platforms while a task waits
C14_Witness ==
  /\ Cardinality(Running) = max_workers
  /\ \E k \in DOMAIN task : task[k].pc = "queued"
  /\ \A i \in 1..Len(platforms) : \E k \in Running : k[1] = platforms[i]

\* every target of build b of job k has a complete file at
\* <platform folder>/<job lowercased>/<timestamp>_<job>_<basename>
PlacedIn(f, k, b) ==
  \A i \in 1..Len(Targets(k, b)) :
    \E t \in 0..MaxClock :
      LET dest == Dest(k, t, Artifacts(k, b)[Targets(k, b)[i]])
      IN  dest \in DOMAIN f /\ f[dest].complete

\* the sync task of job k returns after line 149
Returns(k) ==
  /\ TaskMoves(k)
  /\ task'[k].pc = "done"
  /\ task'[k].out = "Recorded"

\* C15: when the sync task of a job whose requests all succeeded returns,
\* a file exists at the destination path of every matching artifact, and
\* the job's entry is the build number in memory and in the state file.
C15_SyncedAfterTask ==
  [][\A k \in Keys :
       Returns(k) =>
         /\ PlacedIn(fs', k, task'[k].build)
         /\ StateGet(state', k) = task'[k].build
         /\ Loadable(stateFile')
         /\ StateGet(Load(stateFile'), k) = task'[k].build]_vars

\* ------------------------------------------------------------------------
\* The artifact filter on its own
\* ------------------------------------------------------------------------
\* longest artifact list handed to the filter
MaxArts == 2

\* platforms config.json may list: line 35 takes any names, with or
\* without an entry in KW_MAP
ConfigPlatforms == {"Client_Android", "Client_Windows", "Client_Linux"}

RelZip == <<"B","i","n","a","r","y",".","W","i","n",".",
            "c","l","i","e","n","t",".","z","i","p">>

ArtifactLists ==
  UNION {[1..n -> Rels \cup {RelZip}] : n \in 0..MaxArts}

FilterInit ==
  /\ now = 0
  /\ lastBuild = [k \in Keys |-> 0]
  /\ broken = {}
  /\ netDown = FALSE
  /\ fs = <<>>
  /\ dirs = {}
  /\ stateFile = NoFile
  /\ proc = "up"
  /\ main = MainAt("enum", 1, 0)
  /\ state = Load(NoFile)
  /\ task = [k \in Keys |-> IdleTask]
  /\ doneQ = <<>>
  /\ runs = 0
  /\ recovered = FALSE
  /\ shape = [k \in Keys |-> "full"]
  /\ filt \in {[platform |-> p, artifacts |-> a, targets |-> <<>>, pc |-> "call"] :
                 p \in ConfigPlatforms, a \in ArtifactLists}
  /\ prev = [k \in Keys |-> NoPrev]

\* lines 116-117 on the platform and the artifact list given
ApplyFilter ==
  /\ filt.pc = "call"
  /\ filt' = [filt EXCEPT !.targets = FilterFrom(filt.platform, filt.artifacts, 1),
                          !.pc = "done"]
  /\ UNCHANGED <<now, lastBuild, broken, netDown, recovered, shape, disk, proc,
                 runs, main, state, task, doneQ, prev>>

FilterNext == ApplyFilter

FilterSpec == FilterInit /\ [][FilterNext]_vars

\* the relative path contains the keyword, whatever the case of either
ContainsNoCase(kw, rel) == Contains(Lower(kw), Lower(rel))

\* C16: the filter selects an artifact exactly when the platform has a
\* keyword and the relative path contains it, compared without regard to
\* case; for a platform without keyword there is nothing a path could
\* contain.
C16_FilterCorrect ==
  filt.pc = "done" =>
    \A i \in 1..Len(filt.artifacts) :
      (\E n \in 1..Len(filt.targets) : filt.targets[n] = i)
        <=> (/\ filt.platform \in DOMAIN KW_MAP
             /\ ContainsNoCase(KW_MAP[filt.platform], filt.artifacts[i]))

\* Lemma: for the platforms of KW_MAP the filter is the case-insensitive
\* substring test (Binary.Win.client.zip is selected under Client_Windows,
\* debug.log is not).
FilterCorrectWithKeyword ==
  (filt.pc = "done" /\ filt.platform \in DOMAIN KW_MAP) => C16_FilterCorrect

FilterWitness ==
  /\ filt.pc = "done"
  /\ filt.platform = "Client_Windows"
  /\ filt.artifacts = <<RelZip, RelLog>>
  /\ filt.targets = <<1>>

\* the order of the steps of one task: resolution and filter (the step
\* from "queued"), then the downloads, then the update of SyncState
StepOrder ==
  {<<"queued", "done">>, <<"queued", "download">>,
   <<"download", "download">>, <<"download", "stream">>,
   <<"download", "record">>, <<"download", "done">>,
   <<"stream", "rename">>, <<"stream", "done">>,
   <<"rename", "download">>, <<"rename", "record">>,
   <<"record", "dump">>, <<"dump", "close">>, <<"close", "done">>}

\* C17: the steps of a task follow each other in the order resolution and
\* filter, downloads, update of SyncState: the task comes to line 147 from
\* its last target only, with a file in place for every target, and it
\* writes SyncState and the state file at lines 147-149 only.
C17_TaskOrder ==
  [][\A k \in Keys :
       TaskMoves(k) =>
         /\ <<task[k].pc, task'[k].pc>> \in StepOrder
         /\ (task'[k].pc = "record") =>
              /\ task[k].idx = Len(Targets(k, task[k].build))
              /\ PlacedIn(fs', k, task[k].build)
         /\ (state' # state \/ stateFile' # stateFile) =>
              /\ task[k].pc \in {"record", "close"}
              /\ PlacedIn(fs, k, task[k].build)
              /\ \A p \in DOMAIN fs :
                   (IsPart(p) /\ fs[p].key = k /\ fs[p].build = task[k].build)
                     => fs[p].complete = FALSE]_vars

\* the task of Client_Windows/QA is between lines 148 and 149 after it
\* downloaded its two targets
C17_Witness ==
  /\ task[KeyQA].pc = "dump"
  /\ Cardinality({p \in FinalFiles(fs) : fs[p].key = KeyQA}) = 2

\* the downloads a sweep can make: a job and the relative path of a target
\* of the job's last successful build
Downloads ==
  UNION {{<<k, Artifacts(k, lastBuild[k])[Targets(k, lastBuild[k])[i]]>> :
            i \in 1..Len(Targets(k, lastBuild[k]))} :
         k \in {x \in Keys : lastBuild[x] > 0}}

\* C18: at any clock reading, two different downloads of a sweep have
\* different destination paths, final names and .part names alike.
C18_DistinctDestinations ==
  \A d1 \in Downloads : \A d2 \in Downloads : \A t \in 0..MaxClock :
    d1 # d2 =>
      /\ Dest(d1[1], t, d1[2]) # Dest(d2[1], t, d2[2])
      /\ TempDest(Dest(d1[1], t, d1[2])) # TempDest(Dest(d2[1], t, d2[2]))

\* Lemma: downloads of different jobs never share a path (the platform
\* folders are distinct).
DistinctAcrossJobs ==
  \A d1 \in Downloads : \A d2 \in Downloads : \A t1 \in 0..MaxClock :
    \A t2 \in 0..MaxClock :
      d1[1] # d2[1] => Dest(d1[1], t1, d1[2]) # Dest(d2[1], t2, d2[2])

\* ------------------------------------------------------------------------
\* Executions over every shape of the build metadata
\* ------------------------------------------------------------------------
\* "full": number and the artifacts of the build; "nonumber": no "number"
\* field; "bare": no artifacts; "logs": a log as the only artifact
Shapes == {"full", "nonumber", "bare", "logs"}

\* the server answers the metadata query of job k in another shape
Reshape(k, m) ==
  /\ Observed
  /\ shape[k] # m
  /\ shape' = [shape EXCEPT ![k] = m]
  /\ Forget
  /\ UNCHANGED <<now, lastBuild, broken, netDown, recovered, filt, disk, proc,
                 runs, main, state, task, doneQ>>

MetaNext ==
  \/ \E k \in Keys : TaskStep(k)
  \/ MainStep
  \/ Interrupt
  \/ \E k \in Keys : NewBuild(k)
  \/ \E k \in Keys : \E m \in Shapes : Reshape(k, m)

MetaSpec == Init /\ [][MetaNext]_vars

\* main() submits the tasks of the next platform
Submits(k) ==
  /\ proc = "up" /\ proc' = "up"
  /\ main.pc = "enum"
  /\ main'.pc \in {"enum", "collect"}
  /\ main' # main
  /\ k \in JobsOf(platforms[main.idx])

\* C19: when the build resolved is not the one recorded and none of its
\* artifacts matches the keyword (or it has no artifact), the task returns
\* at once: no file, no directory, SyncState and the state file as they
\* were; main() goes on when it collects the future, and the next sweep
\* submits the job again.
C19_NoTargetSkip ==
  [][\A k \in Keys :
       /\ (/\ TakesResolve(k)
           /\ ~netDown
           /\ lastBuild[k] > 0
           /\ StateGet(state, k) # Number(k, lastBuild[k])
           /\ \A i \in 1..Len(Listed(k, lastBuild[k])) :
                ~Matches(k[1], Listed(k, lastBuild[k])[i]))
            => (/\ task'[k].pc = "done"
                /\ task'[k].out = "NoTargets"
                /\ UNCHANGED <<fs, dirs, state, stateFile, main>>)
       /\ (Collects(k) /\ task[k].out = "NoTargets")
            => main'.pc \in {"collect", "sleep"}
       /\ (Submits(k) /\ task[k].out = "NoTargets")
            => task'[k].pc = "queued"]_vars

\* a job whose build lists a log only was skipped in one sweep and is
\* queued in the next; the other job's build lists nothing and was skipped
C19_Witness ==
  \E k \in Keys : \E j \in Keys :
    /\ shape[k] = "logs"
    /\ prev[k].out = "NoTargets"
    /\ task[k].pc = "queued"
    /\ shape[j] = "bare"
    /\ task[j].out = "NoTargets"
    /\ dirs = {}
    /\ state = EmptyState

\* C20: a task takes the "already downloaded" branch only when SyncState
\* has an entry for the job and the entry is the build number resolved.
C20_SkipNeedsEntry ==
  [][\A k \in Keys :
       (TakesResolve(k) /\ task'[k].out = "UpToDate")
         => (k \in DOMAIN state /\ state[k] = Number(k, lastBuild[k]))]_vars

====
